---- MODULE Spec2Model ----
(***************************************************************************)
(* Model of the Cloud Datastore policy adapter and model store:            *)
(* adapter.go (policy adapter) and the model store (SaveModel/LoadModel). *)
(* The Datastore client is modelled by what its calls do to the entities  *)
(* of one database: GetAll, Put, Delete, DeleteMulti, RunInTransaction.   *)
(***************************************************************************)
EXTENDS Integers, Sequences, FiniteSets, TLC

VARIABLES
    store,      \* the entities of the database
    last,       \* the last call made: operation, arguments, returned error, output
    hist,       \* the calls that led to `last' on the same target (newest last)
    pc,         \* position of the SavePolicy call that runs step by step
    saving,     \* that call's adapter and model
    keys,       \* that call's scanned keys not yet deleted
    fault       \* the store call of the last operation that failed ("none" if none)

vars == <<store, last, hist, pc, saving, keys, fault>>

(* ------------------------------ bounds -------------------------------- *)

\* ids a namespace can hold: caps the number of rule rows per namespace
MaxRows == 2
\* most tuples a model passed to SavePolicy holds
MaxModelRules == 2

(* ------------------------------ data ---------------------------------- *)

casbinKind == "casbin"

Namespaces == {"tenantA", "tenantB"}

\* A policy type is a string; its characters are kept so that key[:1] can be taken.
PTypes == {<<"p">>, <<"p", "2">>, <<"g">>}

Sections == {<<"p">>, <<"g">>}

\* CasbinRule{}: the zero value of the row struct
CasbinRule == [PType |-> <<>>, V0 |-> "", V1 |-> "", V2 |-> "", V3 |-> "", V4 |-> "", V5 |-> ""]

\* Config / AdapterConfig values a caller passes
Configs == [Kind : {"", casbinKind}, Namespace : Namespaces]

\* NewAdapterWithConfig: an empty Kind falls back to casbinKind
NewAdapterWithConfig(config) ==
    [kind |-> IF config.Kind # "" THEN config.Kind ELSE casbinKind,
     namespace |-> config.Namespace]

(* --------------------------- row mapping ------------------------------ *)

savePolicyLine(ptype, rule) ==
    [PType |-> ptype,
     V0 |-> IF Len(rule) > 0 THEN rule[1] ELSE "",
     V1 |-> IF Len(rule) > 1 THEN rule[2] ELSE "",
     V2 |-> IF Len(rule) > 2 THEN rule[3] ELSE "",
     V3 |-> IF Len(rule) > 3 THEN rule[4] ELSE "",
     V4 |-> IF Len(rule) > 4 THEN rule[5] ELSE "",
     V5 |-> IF Len(rule) > 5 THEN rule[6] ELSE ""]

\* lineTokens with the sixth field forgotten
lineTokensFive(line) ==
    IF line.V0 = "" THEN <<>>
    ELSE IF line.V1 = "" THEN <<line.V0>>
    ELSE IF line.V2 = "" THEN <<line.V0, line.V1>>
    ELSE IF line.V3 = "" THEN <<line.V0, line.V1, line.V2>>
    ELSE IF line.V4 = "" THEN <<line.V0, line.V1, line.V2, line.V3>>
    ELSE <<line.V0, line.V1, line.V2, line.V3, line.V4>>

\* lineTokens with an empty field skipped instead of ending the scan
lineTokensSkip(line) ==
    SelectSeq(<<line.V0, line.V1, line.V2, line.V3, line.V4, line.V5>>, LAMBDA v : v # "")

\* the tokens loadPolicyLine collects: each goto LineEnd stops the scan
lineTokens(line) ==
    IF line.V0 = "" THEN <<>>
    ELSE IF line.V1 = "" THEN <<line.V0>>
    ELSE IF line.V2 = "" THEN <<line.V0, line.V1>>
    ELSE IF line.V3 = "" THEN <<line.V0, line.V1, line.V2>>
    ELSE IF line.V4 = "" THEN <<line.V0, line.V1, line.V2, line.V3>>
    ELSE IF line.V5 = "" THEN <<line.V0, line.V1, line.V2, line.V3, line.V4>>
    ELSE <<line.V0, line.V1, line.V2, line.V3, line.V4, line.V5>>

\* sec := key[:1]
lineSec(line) == SubSeq(line.PType, 1, 1)

\* model[sec][key].Policy = append(model[sec][key].Policy, tokens)
loadPolicyLine(line, model) ==
    [model EXCEPT ![lineSec(line)][line.PType] = Append(@, lineTokens(line))]

\* a model with every policy type declared under its section and no rule
EmptyModel == [s \in Sections |-> [k \in {pt \in PTypes : SubSeq(pt, 1, 1) = s} |-> <<>>]]

(* ------------------------------ inputs -------------------------------- *)

\* <<policy type, rule>> pairs the callers pass to AddPolicy / RemovePolicy
InputLines ==
    { << <<"p">>, <<"bob", "data2", "write">> >>,
      << <<"p">>, <<"alice", "", "write">> >>,
      << <<"g">>, <<"alice", "admin">> >>,
      << <<"p", "2">>, <<"a", "b", "c", "d", "e", "f">> >>,
      << <<"p", "2">>, <<"a", "b", "c", "d", "e", "g">> >> }

\* the pairs a model handed to SavePolicy is built from: rules of one to six
\* non-empty strings
ModelLines ==
    { << <<"p">>, <<"bob", "data2", "write">> >>,
      << <<"g">>, <<"alice", "admin">> >>,
      << <<"p", "2">>, <<"a", "b", "c", "d", "e", "f">> >> }

\* <<policy type, fieldIndex, fieldValues>> triples the callers pass to
\* RemoveFilteredPolicy
FilterArgs ==
    { << <<"p">>, 1, <<"", "write">> >>,
      << <<"p">>, 0, <<"alice">> >>,
      << <<"g">>, 0, <<>> >>,
      << <<"p", "2">>, 5, <<"f">> >>,
      << <<"p">>, -1, <<"x", "alice">> >>,
      << <<"p", "2">>, 4, <<"e", "g", "z">> >> }

\* paths the callers pass to SaveModel
Paths == {"model.conf", "bad.conf", "missing.conf"}

\* ioutil.ReadFile: the text of the file, or the read error
ReadFile(path) ==
    CASE path = "model.conf" -> [text |-> "m1", err |-> "nil"]
      [] path = "bad.conf" -> [text |-> "bad", err |-> "nil"]
      [] OTHER -> [text |-> "", err |-> "ReadError"]

\* model.NewModelFromString: the parsed model (named by its text) or the parse
\* error; "bad" is the text the model grammar rejects
NewModelFromString(text) ==
    IF text = "bad" THEN [parsed |-> "", err |-> "ValidationError"]
    ELSE [parsed |-> text, err |-> "nil"]

RECURSIVE SeqsUpTo(_, _)
SeqsUpTo(S, n) ==
    IF n = 0 THEN {<<>>}
    ELSE LET shorter == SeqsUpTo(S, n - 1)
         IN shorter \cup {Append(q, x) : q \in {t \in shorter : Len(t) = n - 1}, x \in S}

RECURSIVE ModelOf(_)
\* the model holding the given <<policy type, rule>> pairs, in order
ModelOf(ls) ==
    IF ls = <<>> THEN EmptyModel
    ELSE LET l == ls[Len(ls)]
         IN [ModelOf(SubSeq(ls, 1, Len(ls) - 1)) EXCEPT ![SubSeq(l[1], 1, 1)][l[1]] = Append(@, l[2])]

Models == {ModelOf(ls) : ls \in SeqsUpTo(ModelLines, MaxModelRules)}

(* --------------------------- the datastore ---------------------------- *)

\* An entity: its key (kind, namespace, numeric id or name), the struct it was
\* written from (which fixes its properties) and the property values.
RuleEntity(a, id, line) ==
    [kind |-> a.kind, ns |-> a.namespace, id |-> id, name |-> "",
     props |-> "CasbinRule", line |-> line, text |-> ""]

ConfEntity(kind, namespace, text) ==
    [kind |-> kind, ns |-> namespace, id |-> 0, name |-> "conf",
     props |-> "CasbinModelConf", line |-> CasbinRule, text |-> text]

Key(e) == [kind |-> e.kind, ns |-> e.ns, id |-> e.id, name |-> e.name]

\* key order of query results: numeric ids ascending, named keys after them
KeyLess(k1, k2) ==
    \/ k1.name = "" /\ k2.name # ""
    \/ k1.name = "" /\ k2.name = "" /\ k1.id < k2.id

\* the value of an indexed property of an entity, if it has that property
HasProp(e, prop) ==
    e.props = "CasbinRule" /\ prop \in {"p_type", "v0", "v1", "v2", "v3", "v4", "v5"}

PropOf(e, prop) ==
    CASE prop = "p_type" -> e.line.PType
      [] prop = "v0" -> e.line.V0
      [] prop = "v1" -> e.line.V1
      [] prop = "v2" -> e.line.V2
      [] prop = "v3" -> e.line.V3
      [] prop = "v4" -> e.line.V4
      [] prop = "v5" -> e.line.V5

\* Query with the namespace of the query left out
QueryAnyNamespace(S, a, filters) ==
    {e \in S : /\ e.kind = a.kind
               /\ \A f \in filters : HasProp(e, f[1]) /\ PropOf(e, f[1]) = f[2]}

\* datastore.NewQuery(kind).Namespace(namespace).Filter(...)...: the entities a
\* query matches. filters is a set of <<property, value>> equality filters.
Query(S, a, filters) ==
    {e \in S : /\ e.kind = a.kind
               /\ e.ns = a.namespace
               /\ \A f \in filters : HasProp(e, f[1]) /\ PropOf(e, f[1]) = f[2]}

RECURSIVE InKeyOrder(_)
InKeyOrder(es) ==
    IF es = {} THEN <<>>
    ELSE LET first == CHOOSE e \in es : \A o \in es \ {e} : KeyLess(Key(e), Key(o))
         IN <<first>> \o InKeyOrder(es \ {first})

\* Client.GetAll(ctx, query, &rules) with rules a []*CasbinRule: the keys and
\* entities matched, and ErrFieldMismatch when a matched entity has a property
\* that CasbinRule has no field for (every matched entity is still returned).
GetAll(S, a, filters) ==
    LET hit == InKeyOrder(Query(S, a, filters))
    IN [keys |-> [i \in 1..Len(hit) |-> Key(hit[i])],
        rules |-> [i \in 1..Len(hit) |-> hit[i].line],
        err |-> IF \E i \in 1..Len(hit) : hit[i].props # "CasbinRule"
                THEN "ErrFieldMismatch" ELSE "nil"]

Range(q) == {q[i] : i \in 1..Len(q)}

\* Client.Delete / DeleteMulti: the entities left once the keys are deleted
Delete(S, ks) == {e \in S : Key(e) \notin ks}

\* the rows held under the given keys, in key order
LinesAt(S, ks) ==
    LET es == InKeyOrder({e \in S : Key(e) \in ks})
    IN [i \in 1..Len(es) |-> es[i].line]

\* ids free for datastore.IncompleteKey(kind, nil) in the adapter's namespace
FreeIds(S, a) == {i \in 1..MaxRows : \A e \in Query(S, a, {}) : e.id # i}

RuleRows(S) == {e \in S : e.props = "CasbinRule"}

RECURSIVE PutAll(_, _, _)
\* Put with an incomplete key, once per line: each line becomes a new entity
PutAll(S, a, lines) ==
    IF lines = <<>> THEN S
    ELSE LET id == CHOOSE i \in FreeIds(S, a) : \A j \in FreeIds(S, a) : i <= j
         IN PutAll(S \cup {RuleEntity(a, id, Head(lines))}, a, Tail(lines))

\* room for n more rule rows
HasRoom(S, a, n) ==
    /\ Cardinality(FreeIds(S, a)) >= n
    /\ Cardinality(RuleRows(S)) + n <= MaxRows

(* ------------------------- the call record ---------------------------- *)

NoCall ==
    [op |-> "none", ns |-> "", ptype |-> <<>>, rule |-> <<>>, model |-> EmptyModel,
     fieldIndex |-> 0, fieldValues |-> <<>>, path |-> "",
     err |-> "nil", out |-> EmptyModel, parsed |-> "", removed |-> <<>>]

\* whether call c is made on the target of the call p before it: the same
\* namespace and either a load that follows a save or the same arguments
Continues(c, p) ==
    /\ p.op # "none"
    /\ c.ns = p.ns
    /\ \/ c.op = "LoadPolicy" /\ p.op = "SavePolicy"
       \/ /\ c.op \notin {"LoadPolicy", "LoadModel"}
          /\ p.op \notin {"LoadPolicy", "LoadModel"}
          /\ c.ptype = p.ptype /\ c.rule = p.rule /\ c.model = p.model /\ c.path = p.path
          /\ c.fieldIndex = p.fieldIndex /\ c.fieldValues = p.fieldValues

Entry(p) == [op |-> p.op, err |-> p.err, deleted |-> Len(p.removed)]

LastN(q, n) == IF Len(q) <= n THEN q ELSE SubSeq(q, Len(q) - n + 1, Len(q))

Record(c) ==
    /\ last' = c
    /\ hist' = IF Continues(c, last) THEN LastN(Append(hist, Entry(last)), 2) ELSE <<>>

(* --------------------------- Policy Adapter --------------------------- *)

RECURSIVE loadAll(_, _)
\* for _, l := range rules { loadPolicyLine(*l, model) }
loadAll(rules, model) ==
    IF rules = <<>> THEN model
    ELSE loadAll(Tail(rules), loadPolicyLine(Head(rules), model))

\* scanFails: the store fails the query
LoadPolicy(a, scanFails) ==
    LET r == GetAll(store, a, {})
        err == IF scanFails THEN "StoreError" ELSE r.err
    IN /\ Record([NoCall EXCEPT !.op = "LoadPolicy", !.ns = a.namespace, !.err = err,
                                !.out = IF err # "nil" THEN EmptyModel
                                        ELSE loadAll(r.rules, EmptyModel)])
       /\ fault' = IF scanFails THEN "scan" ELSE "none"
       /\ UNCHANGED <<store, pc, saving, keys>>

\* the orders in which a range over a map with key set S can visit its keys
Orders(S) == {q \in SeqsUpTo(S, Cardinality(S)) : Range(q) = S}

RECURSIVE policyLines(_, _)
policyLines(ptype, policy) ==
    IF policy = <<>> THEN <<>>
    ELSE <<savePolicyLine(ptype, Head(policy))>> \o policyLines(ptype, Tail(policy))

RECURSIVE sectionLines(_, _)
\* for ptype, ast := range model[sec] { for _, rule := range ast.Policy { ... } }
sectionLines(assertions, order) ==
    IF order = <<>> THEN <<>>
    ELSE policyLines(Head(order), assertions[Head(order)]) \o sectionLines(assertions, Tail(order))

\* deleteEach with the loop ending one key early
deleteEachButLast(ks) == Range(SubSeq(ks, 1, Len(ks) - 1))

\* for _, k := range keys { a.db.Delete(ctx, k) }: the keys Delete is called on
deleteEach(ks) == Range(ks)

\* what SavePolicy returns once the transaction has run with error txErr
SavePolicyResult(txErr) == "nil"

\* pOrder, gOrder: the map iteration orders; scanFails: the store fails the
\* query; undeleted: the keys whose Delete the store fails; txFails: the
\* transaction (a Put in it or its commit) fails and writes nothing
SavePolicy(a, model, pOrder, gOrder, scanFails, undeleted, txFails) ==
    LET r == GetAll(store, a, {})
        err == IF scanFails THEN "StoreError" ELSE r.err
        dropped == deleteEach(r.keys) \ undeleted
        afterDelete == Delete(store, dropped)
        lines == sectionLines(model[<<"p">>], pOrder) \o sectionLines(model[<<"g">>], gOrder)
    IN /\ undeleted \subseteq Range(r.keys)
       /\ IF err # "nil"
          THEN /\ ~txFails /\ undeleted = {}
               /\ store' = store
               /\ Record([NoCall EXCEPT !.op = "SavePolicy", !.ns = a.namespace,
                                        !.model = model, !.err = err])
               /\ fault' = IF scanFails THEN "scan" ELSE "none"
          ELSE /\ HasRoom(afterDelete, a, Len(lines))
               /\ store' = IF txFails THEN afterDelete ELSE PutAll(afterDelete, a, lines)
               /\ Record([NoCall EXCEPT !.op = "SavePolicy", !.ns = a.namespace,
                                        !.model = model,
                                        !.err = SavePolicyResult(IF txFails THEN "StoreError" ELSE "nil"),
                                        !.removed = LinesAt(store, dropped)])
               /\ fault' = IF txFails THEN "tx" ELSE IF undeleted # {} THEN "delete" ELSE "none"
       /\ UNCHANGED <<pc, saving, keys>>

\* putFails: the store fails the Put
AddPolicy(a, ptype, rule, putFails) ==
    LET line == savePolicyLine(ptype, rule)
    IN /\ HasRoom(store, a, 1)
       /\ store' = IF putFails THEN store ELSE PutAll(store, a, <<line>>)
       /\ Record([NoCall EXCEPT !.op = "AddPolicy", !.ns = a.namespace, !.ptype = ptype,
                                !.rule = rule,
                                !.err = IF putFails THEN "StoreError" ELSE "nil"])
       /\ fault' = IF putFails THEN "put" ELSE "none"
       /\ UNCHANGED <<pc, saving, keys>>

\* the tail shared by RemovePolicy and RemoveFilteredPolicy: GetAll with the
\* filters, then DeleteMulti of the keys found
removeMatching(c, a, filters, scanFails, deleteFails) ==
    LET r == GetAll(store, a, filters)
        err == IF scanFails THEN "StoreError" ELSE r.err
    IN IF err # "nil"
       THEN /\ ~deleteFails
            /\ store' = store
            /\ Record([c EXCEPT !.err = IF err = "ErrNoSuchEntity" THEN "nil" ELSE err])
            /\ fault' = IF scanFails THEN "scan" ELSE "none"
       ELSE /\ store' = IF deleteFails THEN store ELSE Delete(store, Range(r.keys))
            /\ Record([c EXCEPT !.err = IF deleteFails THEN "StoreError" ELSE "nil",
                                !.removed = IF deleteFails THEN <<>> ELSE r.rules])
            /\ fault' = IF deleteFails THEN "delete" ELSE "none"

\* removePolicyFilters with v1 compared to the rule's first element
removePolicyFiltersShifted(line) ==
    { <<"p_type", line.PType>>, <<"v0", line.V0>>, <<"v1", line.V0>>,
      <<"v2", line.V2>>, <<"v3", line.V3>>, <<"v4", line.V4>> }

\* removePolicyFilters with v5 filtered as well
removePolicyFiltersV5(line) ==
    { <<"p_type", line.PType>>, <<"v0", line.V0>>, <<"v1", line.V1>>,
      <<"v2", line.V2>>, <<"v3", line.V3>>, <<"v4", line.V4>>, <<"v5", line.V5>> }

\* the query filters of RemovePolicy
removePolicyFilters(line) ==
    { <<"p_type", line.PType>>, <<"v0", line.V0>>, <<"v1", line.V1>>,
      <<"v2", line.V2>>, <<"v3", line.V3>>, <<"v4", line.V4>> }

RemovePolicy(a, ptype, rule, scanFails, deleteFails) ==
    /\ removeMatching([NoCall EXCEPT !.op = "RemovePolicy", !.ns = a.namespace,
                                     !.ptype = ptype, !.rule = rule],
                      a, removePolicyFilters(savePolicyLine(ptype, rule)),
                      scanFails, deleteFails)
    /\ UNCHANGED <<pc, saving, keys>>

\* selectorAt without the test for an empty value
selectorAtNoWildcard(k, prop, fieldIndex, fieldValues) ==
    IF fieldIndex <= k /\ k < fieldIndex + Len(fieldValues)
    THEN { <<prop, fieldValues[k - fieldIndex + 1]>> }
    ELSE {}

\* one of the six ifs that fill the selector: position k gets a filter when it
\* lies in the window and the value supplied for it is not empty
selectorAt(k, prop, fieldIndex, fieldValues) ==
    IF fieldIndex <= k /\ k < fieldIndex + Len(fieldValues)
    THEN IF fieldValues[k - fieldIndex + 1] # ""
         THEN { <<prop, fieldValues[k - fieldIndex + 1]>> }
         ELSE {}
    ELSE {}

selector(ptype, fieldIndex, fieldValues) ==
    { <<"p_type", ptype>> }
        \cup selectorAt(0, "v0", fieldIndex, fieldValues)
        \cup selectorAt(1, "v1", fieldIndex, fieldValues)
        \cup selectorAt(2, "v2", fieldIndex, fieldValues)
        \cup selectorAt(3, "v3", fieldIndex, fieldValues)
        \cup selectorAt(4, "v4", fieldIndex, fieldValues)
        \cup selectorAt(5, "v5", fieldIndex, fieldValues)

RemoveFilteredPolicy(a, ptype, fieldIndex, fieldValues, scanFails, deleteFails) ==
    /\ removeMatching([NoCall EXCEPT !.op = "RemoveFilteredPolicy", !.ns = a.namespace,
                                     !.ptype = ptype, !.fieldIndex = fieldIndex,
                                     !.fieldValues = fieldValues],
                      a, selector(ptype, fieldIndex, fieldValues),
                      scanFails, deleteFails)
    /\ UNCHANGED <<pc, saving, keys>>

(* ----------------------------- Model Store ---------------------------- *)

\* the key of the model document under a configuration
confKey(config) ==
    [kind |-> IF config.Kind # "" THEN config.Kind ELSE casbinKind,
     ns |-> config.Namespace, id |-> 0, name |-> "conf"]

SaveModelWithConfig(path, config) ==
    LET file == ReadFile(path)
        key == confKey(config)
        err == IF file.err # "nil" THEN file.err ELSE NewModelFromString(file.text).err
    IN /\ store' = IF err # "nil" THEN store
                   ELSE Delete(store, {key}) \cup {ConfEntity(key.kind, key.ns, file.text)}
       /\ Record([NoCall EXCEPT !.op = "SaveModel", !.ns = config.Namespace,
                                !.path = path, !.err = err])
       /\ fault' = "none"
       /\ UNCHANGED <<pc, saving, keys>>

LoadModelWithConfig(config) ==
    LET found == {e \in store : Key(e) = confKey(config)}
        conf == CHOOSE e \in found : TRUE
    IN /\ Record([NoCall EXCEPT !.op = "LoadModel", !.ns = config.Namespace,
                                !.err = IF found = {} THEN "ErrNoSuchEntity"
                                        ELSE NewModelFromString(conf.text).err,
                                !.parsed = IF found = {} THEN ""
                                           ELSE NewModelFromString(conf.text).parsed])
       /\ fault' = "none"
       /\ UNCHANGED <<store, pc, saving, keys>>

(* ------------------------- the specification -------------------------- *)

Init ==
    /\ store = {}
    /\ last = NoCall
    /\ hist = <<>>
    /\ pc = "idle"
    /\ saving = [a |-> NewAdapterWithConfig([Kind |-> "", Namespace |-> "tenantA"]),
                 model |-> EmptyModel, rules |-> <<>>]
    /\ keys = <<>>
    /\ fault = "none"

DoLoadPolicy(configs) == \E c \in configs : LoadPolicy(NewAdapterWithConfig(c), FALSE)

DoSavePolicy(configs, models) ==
    \E c \in configs, m \in models :
        \E pOrder \in Orders(DOMAIN m[<<"p">>]), gOrder \in Orders(DOMAIN m[<<"g">>]) :
            SavePolicy(NewAdapterWithConfig(c), m, pOrder, gOrder, FALSE, {}, FALSE)

DoAddPolicy(configs, lines) ==
    \E c \in configs, l \in lines : AddPolicy(NewAdapterWithConfig(c), l[1], l[2], FALSE)

DoRemovePolicy(configs, lines) ==
    \E c \in configs, l \in lines :
        RemovePolicy(NewAdapterWithConfig(c), l[1], l[2], FALSE, FALSE)

DoRemoveFilteredPolicy(configs, filters) ==
    \E c \in configs, f \in filters :
        RemoveFilteredPolicy(NewAdapterWithConfig(c), f[1], f[2], f[3], FALSE, FALSE)

DoSaveModel(configs) == \E c \in configs, path \in Paths : SaveModelWithConfig(path, c)

DoLoadModel(configs) == \E c \in configs : LoadModelWithConfig(c)

\* the Policy Adapter of one tenant, on a store whose calls succeed
ConfigsA == {c \in Configs : c.Kind = "" /\ c.Namespace = "tenantA"}

Next ==
    \/ DoLoadPolicy(ConfigsA)
    \/ DoSavePolicy(ConfigsA, Models)
    \/ DoAddPolicy(ConfigsA, InputLines)
    \/ DoRemovePolicy(ConfigsA, InputLines)
    \/ DoRemoveFilteredPolicy(ConfigsA, FilterArgs)

Spec == Init /\ [][Next]_vars

(* -------------- both tenants, Policy Adapter and Model Store ---------- *)

TenantConfigs ==
    { [Kind |-> "", Namespace |-> "tenantA"], [Kind |-> casbinKind, Namespace |-> "tenantB"] }

TenantLines ==
    { << <<"p">>, <<"bob", "data2", "write">> >>, << <<"g">>, <<"alice", "admin">> >> }

TenantModels == {ModelOf(ls) : ls \in SeqsUpTo(TenantLines, 1)}

TenantFilters == { << <<"p">>, 1, <<"", "write">> >> }

NextTenants ==
    \/ DoLoadPolicy(TenantConfigs)
    \/ DoSavePolicy(TenantConfigs, TenantModels)
    \/ DoAddPolicy(TenantConfigs, TenantLines)
    \/ DoRemovePolicy(TenantConfigs, TenantLines)
    \/ DoRemoveFilteredPolicy(TenantConfigs, TenantFilters)
    \/ DoSaveModel(TenantConfigs)
    \/ DoLoadModel(TenantConfigs)

SpecTenants == Init /\ [][NextTenants]_vars

(* ---------------------- a store whose calls can fail ------------------- *)

FaultLines == { << <<"p">>, <<"bob", "data2", "write">> >>, << <<"g">>, <<"alice", "admin">> >> }

FaultModels == {ModelOf(ls) : ls \in SeqsUpTo(FaultLines, 1)}

FaultyLoadPolicy == \E c \in ConfigsA, f \in BOOLEAN : LoadPolicy(NewAdapterWithConfig(c), f)

FaultySavePolicy ==
    \E c \in ConfigsA, m \in FaultModels, scanFails \in BOOLEAN, txFails \in BOOLEAN :
        \E pOrder \in Orders(DOMAIN m[<<"p">>]), gOrder \in Orders(DOMAIN m[<<"g">>]) :
            \E undeleted \in SUBSET {Key(e) : e \in store} :
                SavePolicy(NewAdapterWithConfig(c), m, pOrder, gOrder, scanFails, undeleted, txFails)

FaultyAddPolicy ==
    \E c \in ConfigsA, l \in FaultLines, f \in BOOLEAN :
        AddPolicy(NewAdapterWithConfig(c), l[1], l[2], f)

FaultyRemovePolicy ==
    \E c \in ConfigsA, l \in FaultLines, scanFails \in BOOLEAN, deleteFails \in BOOLEAN :
        RemovePolicy(NewAdapterWithConfig(c), l[1], l[2], scanFails, deleteFails)

FaultyRemoveFilteredPolicy ==
    \E c \in ConfigsA, f \in TenantFilters, scanFails \in BOOLEAN, deleteFails \in BOOLEAN :
        RemoveFilteredPolicy(NewAdapterWithConfig(c), f[1], f[2], f[3], scanFails, deleteFails)

NextFault ==
    \/ FaultyLoadPolicy
    \/ FaultySavePolicy
    \/ FaultyAddPolicy
    \/ FaultyRemovePolicy
    \/ FaultyRemoveFilteredPolicy

SpecFault == Init /\ [][NextFault]_vars

(* ------------- SavePolicy step by step, with a concurrent reader ------- *)

\* keys, err := a.db.GetAll(...): the call starts; a failed scan ends it
SaveScan(a, model) ==
    LET r == GetAll(store, a, {})
    IN /\ pc = "idle"
       /\ r.err = "nil"
       /\ pc' = "deleting"
       /\ keys' = r.keys
       /\ saving' = [a |-> a, model |-> model, rules |-> r.rules]
       /\ UNCHANGED <<store, last, hist, fault>>

\* deleteOne with the delete held back until a commit
deleteOneDeferred(S, k) == S

\* a.db.Delete(ctx, k): one delete, outside any transaction
deleteOne(S, k) == Delete(S, {k})

\* one turn of the loop over the scanned keys
SaveDelete ==
    /\ pc = "deleting"
    /\ keys # <<>>
    /\ store' = deleteOne(store, Head(keys))
    /\ keys' = Tail(keys)
    /\ UNCHANGED <<last, hist, pc, saving, fault>>

\* the loop is over; the lines are built and RunInTransaction is entered
SaveEnterTransaction ==
    /\ pc = "deleting"
    /\ keys = <<>>
    /\ pc' = "transaction"
    /\ UNCHANGED <<store, last, hist, saving, keys, fault>>

\* the transaction commits every Put at once and SavePolicy returns
SaveCommit ==
    \E pOrder \in Orders(DOMAIN saving.model[<<"p">>]),
       gOrder \in Orders(DOMAIN saving.model[<<"g">>]) :
        LET lines == sectionLines(saving.model[<<"p">>], pOrder)
                        \o sectionLines(saving.model[<<"g">>], gOrder)
        IN /\ pc = "transaction"
           /\ HasRoom(store, saving.a, Len(lines))
           /\ store' = PutAll(store, saving.a, lines)
           /\ Record([NoCall EXCEPT !.op = "SavePolicy", !.ns = saving.a.namespace,
                                    !.model = saving.model, !.err = SavePolicyResult("nil"),
                                    !.removed = saving.rules])
           /\ pc' = "idle"
           /\ UNCHANGED <<saving, keys, fault>>

\* the process dies in the middle of SavePolicy; an open transaction is lost
Crash ==
    /\ pc \in {"deleting", "transaction"}
    /\ pc' = "crashed"
    /\ UNCHANGED <<store, last, hist, saving, keys, fault>>

ConcLines ==
    { << <<"p">>, <<"bob", "data2", "write">> >>,
      << <<"p">>, <<"alice", "", "write">> >>,
      << <<"g">>, <<"alice", "admin">> >> }

ConcModels == {ModelOf(ls) : ls \in SeqsUpTo({ << <<"p", "2">>, <<"a", "b", "c", "d", "e", "f">> >> }, 1)}

\* rows are added while no SavePolicy runs
ConcAddPolicy == pc = "idle" /\ DoAddPolicy(ConfigsA, ConcLines)

ConcSaveScan == \E c \in ConfigsA, m \in ConcModels : SaveScan(NewAdapterWithConfig(c), m)

\* another process loads the policy at any moment
ConcLoadPolicy == DoLoadPolicy(ConfigsA)

NextConc ==
    \/ ConcAddPolicy
    \/ ConcSaveScan
    \/ SaveDelete
    \/ SaveEnterTransaction
    \/ SaveCommit
    \/ Crash
    \/ ConcLoadPolicy

SpecConc == Init /\ [][NextConc]_vars

(* ------------------- one stored row of any shape, loaded --------------- *)

Fields == {"", "a", "x"}

InitLine ==
    /\ \E pt \in PTypes, v0 \in Fields, v1 \in Fields, v2 \in Fields,
          v3 \in Fields, v4 \in Fields, v5 \in Fields :
            store = { RuleEntity(NewAdapterWithConfig([Kind |-> "", Namespace |-> "tenantA"]), 1,
                                 [PType |-> pt, V0 |-> v0, V1 |-> v1, V2 |-> v2,
                                  V3 |-> v3, V4 |-> v4, V5 |-> v5]) }
    /\ last = NoCall
    /\ hist = <<>>
    /\ pc = "idle"
    /\ saving = [a |-> NewAdapterWithConfig([Kind |-> "", Namespace |-> "tenantA"]),
                 model |-> EmptyModel, rules |-> <<>>]
    /\ keys = <<>>
    /\ fault = "none"

NextLine == DoLoadPolicy(ConfigsA)

SpecLine == InitLine /\ [][NextLine]_vars

(* ------------------------------ claims -------------------------------- *)

\* the rule rows stored under a namespace of the default kind
NsRows(S, ns) == {e \in S : e.kind = casbinKind /\ e.ns = ns /\ e.props = "CasbinRule"}

\* element i (from 0) of a tuple, the empty string past its end
RuleAt(rule, i) == IF i < Len(rule) THEN rule[i + 1] ELSE ""

\* field v_i of a row
Field(line, i) ==
    CASE i = 0 -> line.V0 [] i = 1 -> line.V1 [] i = 2 -> line.V2
      [] i = 3 -> line.V3 [] i = 4 -> line.V4 [] i = 5 -> line.V5

\* the row derivable from a tuple under a policy type
RowOf(ptype, rule) ==
    [PType |-> ptype, V0 |-> RuleAt(rule, 0), V1 |-> RuleAt(rule, 1), V2 |-> RuleAt(rule, 2),
     V3 |-> RuleAt(rule, 3), V4 |-> RuleAt(rule, 4), V5 |-> RuleAt(rule, 5)]

\* the positions <<section, policy type, index>> of the tuples of a model
Tuples(m) ==
    {t \in Sections \X PTypes \X (1..(MaxModelRules + 1)) :
        t[2] \in DOMAIN m[t[1]] /\ t[3] <= Len(m[t[1]][t[2]])}

\* how many tuples of m give the row, and how many stored rows are equal to it
InModel(m, line) == Cardinality({t \in Tuples(m) : RowOf(t[2], m[t[1]][t[2]][t[3]]) = line})
InStore(S, ns, line) == Cardinality({e \in NsRows(S, ns) : e.line = line})

Occurs(q, x) == Cardinality({i \in 1..Len(q) : q[i] = x})
SameBag(q1, q2) == \A x \in Range(q1) \cup Range(q2) : Occurs(q1, x) = Occurs(q2, x)

SameCall(c, p) ==
    /\ c.op = p.op /\ c.ns = p.ns /\ c.ptype = p.ptype /\ c.rule = p.rule
    /\ c.model = p.model

Ok(c, op) == c.op = op /\ c.err = "nil"

\* C2: when SavePolicy(M) succeeds twice in a row under one namespace, the
\* namespace then holds exactly the rows derivable from M: each row as often
\* as M has tuples giving it, and no other row.
C2_FullReplace ==
    [][(Ok(last, "SavePolicy") /\ Ok(last', "SavePolicy") /\ SameCall(last', last))
        => \A line \in {e.line : e \in NsRows(store', last'.ns)}
                        \cup {RowOf(t[2], last'.model[t[1]][t[2]][t[3]]) : t \in Tuples(last'.model)} :
               InStore(store', last'.ns, line) = InModel(last'.model, line)]_vars

\* the second of two successful SavePolicy(M) calls has run, M holds tuples,
\* and the first call found rows to delete
C2_Witness ==
    /\ Ok(last, "SavePolicy")
    /\ Tuples(last.model) # {}
    /\ hist # <<>>
    /\ hist[Len(hist)].op = "SavePolicy" /\ hist[Len(hist)].err = "nil"
    /\ hist[Len(hist)].deleted > 0

\* C3: a successful LoadPolicy into an empty model right after a successful
\* SavePolicy(M) under the same namespace yields, under every section and
\* policy type, the tuples of M with their multiplicity and no other.
C3_SaveLoadRoundTrip ==
    [][(Ok(last, "SavePolicy") /\ Ok(last', "LoadPolicy") /\ last'.ns = last.ns)
        => \A s \in Sections :
              /\ DOMAIN last'.out[s] = DOMAIN last.model[s]
              /\ \A k \in DOMAIN last.model[s] :
                    /\ Len(last'.out[s][k]) = Len(last.model[s][k])
                    /\ SameBag(last'.out[s][k], last.model[s][k])]_vars

\* LoadPolicy has run right after SavePolicy of a model with a "p" rule, a
\* six-field "p2" rule or a duplicate, and a "g" rule
C3_Witness ==
    /\ Ok(last, "LoadPolicy")
    /\ hist # <<>> /\ hist[Len(hist)].op = "SavePolicy"
    /\ last.out[<<"p">>][<<"p">>] # <<>>
    /\ last.out[<<"g">>][<<"g">>] # <<>>

\* C4: RemovePolicy right after AddPolicy of the same rule leaves no row equal
\* to the rule's row, and a RemovePolicy right after a successful RemovePolicy
\* with the same arguments finds nothing, changes nothing and succeeds.
C4_AddRemoveInverse ==
    [][/\ (Ok(last, "AddPolicy") /\ last'.op = "RemovePolicy"
            /\ last'.ns = last.ns /\ last'.ptype = last.ptype /\ last'.rule = last.rule)
          => /\ last'.err = "nil"
             /\ \A e \in NsRows(store', last'.ns) : e.line # RowOf(last'.ptype, last'.rule)
       /\ (Ok(last, "RemovePolicy") /\ last'.op = "RemovePolicy" /\ SameCall(last', last))
          => /\ last'.err = "nil"
             /\ last'.removed = <<>>
             /\ store' = store]_vars

\* AddPolicy, RemovePolicy that deleted the row, RemovePolicy again
C4_Witness ==
    /\ Ok(last, "RemovePolicy") /\ last.removed = <<>>
    /\ Len(hist) = 2
    /\ hist[1].op = "AddPolicy" /\ hist[1].err = "nil"
    /\ hist[2].op = "RemovePolicy" /\ hist[2].err = "nil" /\ hist[2].deleted > 0

\* whether a row is one RemoveFilteredPolicy(ptype, fieldIndex, fieldValues) is to delete
FilterMatch(line, ptype, fieldIndex, fieldValues) ==
    /\ line.PType = ptype
    /\ \A i \in 0..5 :
          (fieldIndex <= i /\ i < fieldIndex + Len(fieldValues)
                /\ fieldValues[i - fieldIndex + 1] # "")
            => Field(line, i) = fieldValues[i - fieldIndex + 1]

\* C5: RemoveFilteredPolicy succeeds and deletes exactly the rows of its
\* namespace that have the policy type and agree with every non-empty value
\* supplied for a position of 0..5; every other entity is left as it was.
C5_FilteredRemoval ==
    [][last'.op = "RemoveFilteredPolicy"
        => /\ last'.err = "nil"
           /\ store' = store \ {e \in NsRows(store, last'.ns) :
                                   FilterMatch(e.line, last'.ptype, last'.fieldIndex,
                                               last'.fieldValues)}]_vars

\* the wildcard call deleted two rows that have v2 = "write" and differ in v1
C5_Witness ==
    /\ Ok(last, "RemoveFilteredPolicy")
    /\ last.fieldIndex = 1 /\ last.fieldValues = <<"", "write">>
    /\ \E i, j \in 1..Len(last.removed) : last.removed[i].V1 # last.removed[j].V1

\* C8: RemovePolicy deletes exactly the rows of its namespace that have the
\* policy type and agree with the rule on v0..v4 (the empty string past the
\* rule's end); v5 plays no part, and every other entity is left as it was.
C8_RemovePolicyFrame ==
    [][Ok(last', "RemovePolicy")
        => store' = store \ {e \in NsRows(store, last'.ns) :
                                /\ e.line.PType = last'.ptype
                                /\ \A i \in 0..4 : Field(e.line, i) = RuleAt(last'.rule, i)}]_vars

\* one call deleted two rows that differ only in v5
C8_Witness ==
    /\ Ok(last, "RemovePolicy")
    /\ \E i, j \in 1..Len(last.removed) : last.removed[i].V5 # last.removed[j].V5

\* C1: SavePolicy returns an error whenever its insert transaction failed.
C1_TransactionErrorSurfaced ==
    (last.op = "SavePolicy" /\ fault = "tx") => last.err # "nil"

\* the model document of a namespace, as a set of at most one entity
ConfOf(S, ns) == {e \in S : e.kind = casbinKind /\ e.ns = ns /\ e.name = "conf"}

\* the number of leading non-empty fields of a row
PrefixLen(line) ==
    CHOOSE n \in 0..6 :
        /\ (\A i \in 0..(n - 1) : Field(line, i) # "")
        /\ (n = 6 \/ Field(line, n) = "")

\* the longest prefix of (v0, ..., v5) made of non-empty fields
Prefix(line) == [i \in 1..PrefixLen(line) |-> Field(line, i - 1)]

\* C6: a call made under one namespace leaves the entities of every other
\* namespace as they were, and what it returns is fixed by the entities of its
\* own namespace: the tuples LoadPolicy yields are those of its own rows, the
\* model LoadModel yields is its own document, the rows a call removes are
\* rows of its own namespace, and a scan fails only over its own document.
C6_NamespaceIsolation ==
    [][/\ \A ns \in Namespaces \ {last'.ns} :
              {e \in store' : e.ns = ns} = {e \in store : e.ns = ns}
       /\ Ok(last', "LoadPolicy")
            => \A s \in Sections : \A k \in DOMAIN last'.out[s] :
                  \A t \in Range(last'.out[s][k])
                            \cup {Prefix(e.line) : e \in NsRows(store, last'.ns)} :
                      Occurs(last'.out[s][k], t)
                        = Cardinality({e \in NsRows(store, last'.ns) :
                                          e.line.PType = k /\ Prefix(e.line) = t})
       /\ Ok(last', "LoadModel")
            => \E e \in ConfOf(store, last'.ns) : last'.parsed = e.text
       /\ \A i \in 1..Len(last'.removed) :
              \E e \in NsRows(store, last'.ns) : e.line = last'.removed[i]
       /\ (last'.op \in {"LoadPolicy", "SavePolicy"} /\ last'.err # "nil")
            => ConfOf(store, last'.ns) # {}]_vars

\* SavePolicy under tenantA has deleted rows while tenantB holds rows and a
\* model document
C6_Witness ==
    /\ Ok(last, "SavePolicy") /\ last.ns = "tenantA"
    /\ last.removed # <<>>
    /\ NsRows(store, "tenantB") # {}
    /\ ConfOf(store, "tenantB") # {}

\* C7: LoadPolicy turns a stored row into the longest prefix of (v0, ..., v5)
\* made of non-empty fields and appends it under the section named by the
\* first character of p_type and under p_type; nothing else is appended.
C7_TruncationLaw ==
    Ok(last, "LoadPolicy")
        => \A e \in NsRows(store, last.ns) :
              \A s \in Sections : \A k \in DOMAIN last.out[s] :
                  last.out[s][k] = IF s = <<e.line.PType[1]>> /\ k = e.line.PType
                                   THEN <<Prefix(e.line)>>
                                   ELSE <<>>

\* a row with v2 empty and v3 not empty was loaded as its first two fields
C7_Witness ==
    /\ Ok(last, "LoadPolicy")
    /\ \E e \in NsRows(store, last.ns) :
          /\ e.line.V0 = "a" /\ e.line.V1 # "" /\ e.line.V2 = "" /\ e.line.V3 = "x"
          /\ e.line.PType = <<"p", "2">>
          /\ last.out[<<"p">>][<<"p", "2">>] = << <<e.line.V0, e.line.V1>> >>

\* C9: each delete of SavePolicy takes effect at once, on its own: while the
\* loop runs, the namespace holds exactly the scanned rows not yet deleted and
\* none of the rows to insert; once the loop is over and until the transaction
\* commits, and after a crash in that stretch, the namespace holds no row.
C9_DeleteThenInsertNotAtomic ==
    LET ns == saving.a.namespace
    IN /\ pc = "deleting" => {Key(e) : e \in NsRows(store, ns)} = Range(keys)
       /\ pc = "transaction" => NsRows(store, ns) = {}
       /\ (pc = "crashed" /\ keys = <<>>) => NsRows(store, ns) = {}

\* the number of tuples of a model
Size(m) == Cardinality(Tuples(m))

\* a LoadPolicy that ran in the middle of the delete loop of SavePolicy(M)
\* saw some of the previous rows, not all of them, and no row of M
C9_Witness ==
    /\ pc = "deleting"
    /\ Ok(last, "LoadPolicy")
    /\ Tuples(saving.model) # {}
    /\ \E n \in 1..(Len(saving.rules) - 1) :
          n = Len(last.out[<<"p">>][<<"p">>]) + Len(last.out[<<"g">>][<<"g">>])
    /\ last.out[<<"p">>][<<"p", "2">>] = <<>>

\* C10: with the model document stored under the adapter's kind and
\* namespace, LoadPolicy and SavePolicy succeed and leave the document in place.
C10_ModelDocumentNoInterference ==
    [][(last'.op \in {"LoadPolicy", "SavePolicy"} /\ ConfOf(store, last'.ns) # {})
        => /\ last'.err = "nil"
           /\ ConfOf(store', last'.ns) = ConfOf(store, last'.ns)]_vars

====
